---- MODULE Spec2Model ----
(***************************************************************************)
(* Model of the outbound API request governor of nullroute: the APIQueue   *)
(* class of src/server/db.ts (priority waiting line, single dispatch loop, *)
(* pacing by lastRequestTime) and the procedures of src/server/routers.ts  *)
(* that reach the exchange API through it or around it; createTransaction  *)
(* of the exchange client (src/server/_core/depositWallet.ts) with its     *)
(* validation and retry loop; the routing map of src/unnamed/part_002 in   *)
(* its in-memory and its durable form.  Each subsystem has a specification *)
(* of its own over the shared state: Spec and SpecLive (governor),         *)
(* SpecClient, SpecMap, SpecProc.                                          *)
(*                                                                         *)
(* JavaScript runs every handler to its next await without interruption,   *)
(* so one action is one such run: an enqueue call (with the synchronous    *)
(* head of processQueue it triggers), the pacing timer firing, the dynamic *)
(* import resolving, the Exchange Client call returning or throwing (with  *)
(* the rest of the while loop up to its next await).                       *)
(***************************************************************************)
EXTENDS Integers, Sequences, FiniteSets, TLC

\* ---------------------------------------------------------------- bounds
MaxItems == 4      \* submissions in one behaviour of the api scenario
MaxBurst == 30     \* submissions in the burst scenario (all at time 0)
MaxDirect == 1     \* concurrent direct (un-queued) estimateFees calls
MaxSlots == 3      \* items pending at once in SpecLive, where submissions
                   \* never end
MaxCalls == 2      \* procedure calls made one after the other in SpecProc
MaxRequests == 2   \* requests made one after the other in SpecValidation
MaxOps == 2        \* exchange operations made one after the other in SpecExchange
MaxAmount == 3     \* largest amount sent, in whole units
MaxTransfers == 2   \* transfers made from one page in SpecPoll
TickMs == 1000     \* the step of the page's clock in SpecPoll (ms)
MaxCallers == 2    \* wallet calls under way at once in SpecWallet
MaxWalletCalls == 3 \* wallet calls made in one behaviour of SpecWallet

\* ------------------------------------------------------- program constants
maxRequestsPerSecond == 25
minDelayBetweenRequests == 1000 \div maxRequestsPerSecond

Types == {"createTransaction", "getStatus", "estimateFees"}

PriorityOf(type) ==
    CASE type = "createTransaction" -> 1
      [] type = "getStatus" -> 10
      [] type = "estimateFees" -> 5

Min(a, b) == IF a < b THEN a ELSE b
Max(a, b) == IF a > b THEN a ELSE b

Ids == 1..Max(MaxItems, MaxBurst)
\* the clock moves by half a pacing interval or by a whole one
TickSteps == {minDelayBetweenRequests \div 2, minDelayBetweenRequests}

\* What the environment does in a behaviour:
\*   "api"    any calls of the three exported queue* functions, whose
\*            exchange calls all return
\*   "faults" the same, with exchange calls that may throw
\*   "router" the procedures of routers.ts: transfer, getTransaction and
\*            getRoutingStatus (through the queue) and estimateFees (direct)
\*   "burst"  MaxBurst getStatus submissions made in one synchronous run
Scenarios == {"api", "faults", "router", "burst"}

VARIABLES
    queue,                  \* APIQueue.queue: the waiting line of QueueItems
    processing,             \* APIQueue.processing
    timeSinceLastRequest,   \* Date.now() - lastRequestTime, saturated at
                            \* minDelayBetweenRequests (the code only compares
                            \* it with that value)
    loops,                  \* suspended activations of processQueue
    outcome,                \* per item: state of the promise enqueue returned
    direct,                 \* exchange calls in flight made without the queue
    \* ---- the environment
    scenario,               \* one of Scenarios, fixed in a behaviour
    \* ---- history (observer) variables, never read by the program
    nextId,                 \* number of submissions so far, plus one
    clock,                  \* burst scenario: ms elapsed since the burst was
                            \* submitted (in the other scenarios elapsed time
                            \* is observed through dispatchLog only)
    dispatched,             \* ids in the order they were shifted off the line
    started,                \* ids in the order their exchange call started
    dispatchLog,            \* the assignments of lastRequestTime: how many,
                            \* the time since the latest and the shortest
                            \* time between two consecutive ones (both
                            \* measured on clock, up to minDelayBetweenRequests)
    settles,                \* per item: number of resolve/reject calls
    kind,                   \* per item: the type it was submitted with
    run,                    \* the values of processing met by the latest (at
                            \* most two) enqueue calls made since the loop
                            \* last ran: the current synchronous run of calls
    triples,                \* the runs createTransaction, getStatus,
                            \* createTransaction seen: first id, and whether
                            \* the loop was running when it was submitted
    result,                 \* per item: how its own exchange call ended
    activations             \* number of processQueue activations that got
                            \* past the guard

real == <<queue, processing, timeSinceLastRequest, loops, outcome, direct>>
hist == <<nextId, clock, dispatched, started, dispatchLog, settles, kind,
          run, triples, result, activations>>

VARIABLES
    \* ---- createTransaction of the exchange client (one call)
    params,                 \* the call's argument: address, fromAmount, toAmount
    apiKey,                 \* CHANGENOW_API_KEY
    cpc,                    \* where the call stands: "idle", "fetching"
                            \* (awaiting fetch), "backoff" (awaiting the
                            \* retry timer), "returned", "thrown"
    attempt,                \* the for loop's variable
    lastError,              \* the function's lastError
    returned,               \* the data returned to the caller, or NoData
    thrown,                 \* the error thrown to the caller, or NoError
    \* ---- history of that call
    requests,               \* number of fetch calls made
    sleeps,                 \* the backoff waits made, in order (ms)
    seen                    \* what each attempt met, in order

client == <<params, apiKey, cpc, attempt, lastError, returned, thrown,
            requests, sleeps, seen>>

VARIABLES
    \* ---- the routing map, in its two implementations
    transactionIdToRoutingId,  \* the in-memory Map
    routingTable,           \* the transaction_routing table behind
                            \* db.storeTransactionRouting
    dbReachable,            \* whether the database answers
    \* ---- history of the routing map
    firstStored,            \* per implementation and ref: the ext of the
                            \* first store that succeeded
    latestStored,           \* the same for the latest store that succeeded
    lastLookup              \* the latest lookup made since the last store

rmap == <<transactionIdToRoutingId, routingTable, dbReachable, firstStored,
          latestStored, lastLookup>>


VARIABLES
    \* ---- one call of a procedure of routers.ts
    procName,               \* which procedure
    procInput,              \* its input, by the case it falls in
    ppc,                    \* where it stands: "idle", "calling" (awaiting
                            \* the exchange call), "storing", "recording",
                            \* "done"
    callEnd,                \* how its exchange call ended: "none", "ok" or
                            \* the kind of failure
    itemOutcome,            \* the outcome of the WorkItem (or of the direct
                            \* call's promise): "none", "resolved", "rejected"
    response,               \* what the procedure's caller receives
    warnings,               \* what the procedure logged with console.warn
    txRecords,              \* rows inserted by db.createTransaction
    dbPersisted,            \* transfer's local dbPersisted
    calls                   \* number of procedure calls made so far

procedure == <<procName, procInput, ppc, callEnd, itemOutcome, response,
               warnings, txRecords, dbPersisted, calls>>

VARIABLES
    \* ---- one request checked for its amount: a call of estimateFees,
    \* transfer, shield or unshield, or a call of queueEstimateFees itself
    entry,                  \* which entry point was called
    amountSol,              \* its amount: the string input.amountSol of a
                            \* procedure, the number fromAmount of the queue
    walletFound,            \* whether db.getWalletByPublicKey finds a wallet
    apc,                    \* where the request stands: "idle", "queued",
                            \* "done"
    workItems,              \* WorkItems the request enqueued
    exchangeCalls,          \* HTTP requests made to the exchange for it
    inserted,               \* transaction records inserted for it
    failure,                \* the message it failed with, or "none"
    requestsMade            \* number of requests made so far

validation == <<entry, amountSol, walletFound, apc, workItems, exchangeCalls,
                inserted, failure, requestsMade>>

VARIABLES
    \* ---- one call of getTransactionStatus or estimateTransactionFees
    op,                     \* which of the two
    opc,                    \* where it stands: "idle", "fetching" (awaiting
                            \* fetch), "reading" (awaiting response.json()),
                            \* "returned", "thrown"
    timerArmed,             \* an abort timer is pending on the fetch
    httpStatus,             \* the status of the response, 0 before it
    opRequests,             \* fetch calls made by this call
    opError,                \* the message of the Error it threw, or ""
    fromAmount,             \* estimateTransactionFees: the amount sent
    estimate,               \* estimateTransactionFees: what it returned
    opsMade                 \* number of calls made so far

exchange == <<op, opc, timerArmed, httpStatus, opRequests, opError,
              fromAmount, estimate, opsMade>>

VARIABLES
    \* ---- the status query of the Home page
    transactionResult,      \* the routingTransactionId of the page's
                            \* transactionResult, "null" without one
    queryData,              \* query.state.data: "undefined", "no status"
                            \* (an object without status) or the status
    exchangeStatus,         \* the status of the transaction at the exchange
    fetching,               \* a getRoutingStatus request is in flight
    elapsed,                \* ms since the interval timer was set
    transfersMade,          \* transfers made from the page so far
    \* ---- history of the query
    lastCause,              \* what made the latest request: "mount",
                            \* "interval", "focus"
    lastGap,                \* ms the timer ran before the latest interval
                            \* request, -1 before any
    polledPastEnd           \* the interval made a request although the data
                            \* held a terminal status

polling == <<transactionResult, queryData, exchangeStatus, fetching, elapsed,
             transfersMade, lastCause, lastGap, polledPastEnd>>

VARIABLES
    \* ---- the wallets table and the calls of wallet.connect / disconnect
    wallets,                \* the rows of the table
    nextWalletId,           \* the identity column's next value
    walletCalls,            \* per caller: the call under way
    walletCallsMade,        \* number of calls started so far
    \* ---- history of the table
    lastWrite,              \* per publicKey: the procedure that wrote its
                            \* row last, "none" before any
    connectIds              \* per publicKey: the wallet ids connect returned

walletStore == <<wallets, nextWalletId, walletCalls, walletCallsMade,
                 lastWrite, connectIds>>

\* the state added for the later subsystems
later == <<validation, exchange, polling, walletStore>>

\* the state of the subsystems other than the governor
beyond == <<client, rmap, procedure, later>>

vars == <<queue, processing, timeSinceLastRequest, loops, outcome, direct,
          scenario, nextId, clock, dispatched, started, dispatchLog, settles, kind,
          run, triples, result, activations, beyond>>

\* ------------------------------------------------------------ APIQueue

\* variants of the definitions below, each with one plausible slip, used to
\* show that the properties depend on the code as written

\* findIndex with <= : a new item goes in front of its own tier
FindIndexLeq(q, priority) ==
    IF \E i \in 1..Len(q) : q[i].priority <= priority
    THEN (CHOOSE i \in 1..Len(q) :
             /\ q[i].priority <= priority
             /\ \A j \in 1..(i - 1) : ~(q[j].priority <= priority)) - 1
    ELSE -1

\* push in every case: the line is kept in arrival order
InsertAtEnd(q, item) == Append(q, item)

\* the guard without the processing flag
CanStartNoFlag(proc, q) == Len(q) > 0

\* queue[0] read but not removed
ShiftPeek(q) == q

\* the pacing comparison the wrong way round
NeedsWaitReversed(since) == since > minDelayBetweenRequests

\* the catch block resolving instead of rejecting
SettlementAlwaysResolves(res) == "resolved"

\* the flag never cleared
ProcessingStaysSet == TRUE

\* queue.findIndex((q) => q.priority < priority), 0-based, -1 when none
FindIndex(q, priority) ==
    IF \E i \in 1..Len(q) : q[i].priority < priority
    THEN (CHOOSE i \in 1..Len(q) :
             /\ q[i].priority < priority
             /\ \A j \in 1..(i - 1) : ~(q[j].priority < priority)) - 1
    ELSE -1

\* push when findIndex gave -1, splice(insertIndex, 0, item) otherwise
Insert(q, item) ==
    LET insertIndex == FindIndex(q, item.priority) IN
    IF insertIndex = -1
    THEN Append(q, item)
    ELSE SubSeq(q, 1, insertIndex) \o <<item>> \o SubSeq(q, insertIndex + 1, Len(q))

\* the guard of processQueue: return when already processing or nothing queued
CanStart(proc, q) == ~proc /\ Len(q) > 0

\* queue.shift(): what is left in the line
Shift(q) == Tail(q)

\* timeSinceLastRequest < minDelayBetweenRequests
NeedsWait(since) == since < minDelayBetweenRequests

\* waitTime = minDelayBetweenRequests - timeSinceLastRequest
WaitTime(since) == minDelayBetweenRequests - since

\* One pass of the while body up to its first await: shift the head, then
\* either sleep for the pacing interval or stamp lastRequestTime and await
\* the dynamic import.
Iterate(q, since) ==
    [queue |-> Shift(q),
     since |-> IF NeedsWait(since) THEN since ELSE 0,
     loop  |-> IF NeedsWait(since)
               THEN [item |-> Head(q), pc |-> "pacing", timer |-> WaitTime(since)]
               ELSE [item |-> Head(q), pc |-> "importing", timer |-> 0]]

\* getQueueStatus(): { queueLength: this.queue.length, processing }
getQueueStatus(q, proc) == [queueLength |-> Len(q), processing |-> proc]

\* item.resolve(result) on return, item.reject(error) in the catch
Settlement(res) == IF res = "ok" THEN "resolved" ELSE "rejected"

\* this.processing = false after the while loop
ProcessingAfterDrain == FALSE

\* ------------------------------------------------------------- initial state

\* ------------------------------------- exchange client: values and idle state

\* JavaScript values as the client meets them: undefined, numbers (written
\* as numerals, with "NaN" and "Infinity"), strings
Undefined == [type |-> "undefined", val |-> ""]
Num(n) == [type |-> "number", val |-> n]
Str(x) == [type |-> "string", val |-> x]
NoError == [name |-> "none", message |-> ""]
Error(name, message) == [name |-> name, message |-> message]

\* !v of JavaScript
Falsy(v) ==
    \/ v.type = "undefined"
    \/ v.type = "number" /\ v.val \in {"0", "NaN"}
    \/ v.type = "string" /\ v.val = ""
IsString(v) == v.type = "string"

\* n <= 0 and isNaN(n) on a number value
LeqZero(v) == v.type = "number" /\ v.val \in {"-1", "0"}
IsNaN(v) == v.type = "number" /\ v.val = "NaN"

\* the parsed body of a response: an object with the three fields the
\* client reads, or null; NoData stands for no body at all
Object(id, payin, payout) ==
    [type |-> "object", id |-> id, payinAddress |-> payin,
     payoutAddress |-> payout]
Null == [type |-> "null", id |-> Undefined, payinAddress |-> Undefined,
         payoutAddress |-> Undefined]
NoData == [type |-> "none", id |-> Undefined, payinAddress |-> Undefined,
           payoutAddress |-> Undefined]

\* String.prototype.trim on the addresses used here
Trim(x) ==
    CASE x = " " -> ""
      [] x = " Dest " -> "Dest"
      [] OTHER -> x

\* new PublicKey(x) succeeds: x is a well-formed chain address
IsPublicKey(x) == x \in {"Dest", "Other", "Payin"}

\* ------------------------------------------- routing map: values and start

Refs == {"NR-1", "NR-2"}
Exts == {"ext1", "ext2"}
Impls == {"memory", "durable"}
NoLookup == [impl |-> "none", ref |-> "", result |-> "", threw |-> FALSE,
             reachable |-> TRUE]

MapEmpty ==
    /\ transactionIdToRoutingId = [r \in Refs |-> "undefined"]
    /\ routingTable = [r \in Refs |-> "undefined"]
    /\ dbReachable = TRUE
    /\ firstStored = [i \in Impls |-> [r \in Refs |-> "undefined"]]
    /\ latestStored = [i \in Impls |-> [r \in Refs |-> "undefined"]]
    /\ lastLookup = NoLookup

\* the subsystems other than the governor, before anything was called
ClientIdle ==
    /\ params = [address |-> "Dest", fromAmount |-> Num(1), toAmount |-> Undefined]
    /\ apiKey = "key"
    /\ cpc = "idle"
    /\ attempt = 0
    /\ lastError = NoError
    /\ returned = NoData
    /\ thrown = NoError
    /\ requests = 0
    /\ sleeps = <<>>
    /\ seen = <<>>

\* ------------------------------------------ procedures: values and start

Procedures == {"transfer", "estimateFees", "getTransaction", "getRoutingStatus"}
Failures == {"validation", "client", "transient", "timeout", "integrity"}
NoResponse == [kind |-> "none", code |-> "", message |-> "", body |-> ""]
Result(body) == [kind |-> "result", code |-> "", message |-> "", body |-> body]
TRPCError(code, message) ==
    [kind |-> "error", code |-> code, message |-> message, body |-> ""]

ProcedureIdle ==
    /\ ppc = "idle"
    /\ callEnd = "none"
    /\ itemOutcome = "none"
    /\ response = NoResponse
    /\ warnings = {}
    /\ txRecords = 0
    /\ dbPersisted = FALSE
    /\ calls = 1

\* ------------------------------------------- amount checks: values, start

Entries == {"estimateFees", "transfer", "shield", "unshield", "queueEstimateFees"}
AmountStrings == {"0", "-1.0", "abc", "", "1.5"}
AmountNumbers == {Num("0"), Num("-1"), Num("NaN"), Num("1.5")}

\* parseFloat on the strings used here
parseFloat(x) ==
    CASE x = "0" -> Num("0")
      [] x = "-1.0" -> Num("-1")
      [] x = "1.5" -> Num("1.5")
      [] OTHER -> Num("NaN")

AmountsOf(e) ==
    IF e = "queueEstimateFees" THEN AmountNumbers
    ELSE {Str(x) : x \in AmountStrings}

ValidationIdle ==
    /\ apc = "idle"
    /\ workItems = 0
    /\ exchangeCalls = 0
    /\ inserted = 0
    /\ failure = "none"
    /\ requestsMade = 1

Ops == {"getTransactionStatus", "estimateTransactionFees"}

\* a fraction n / d, d > 0
Ratio(n, d) == [num |-> n, den |-> d]
NoEstimate ==
    [sendAmount |-> 0, receiveAmount |-> 0, feeAmount |-> 0,
     feePercentage |-> Ratio(0, 1), isValid |-> FALSE]

ExchangeIdle ==
    /\ opc = "idle"
    /\ timerArmed = FALSE
    /\ httpStatus = 0
    /\ opRequests = 0
    /\ opError = ""
    /\ estimate = NoEstimate
    /\ opsMade = 1

PollingIdle ==
    /\ transactionResult = "null"
    /\ queryData = "undefined"
    /\ exchangeStatus = "waiting"
    /\ fetching = FALSE
    /\ elapsed = 0
    /\ transfersMade = 0
    /\ lastCause = "none"
    /\ lastGap = -1
    /\ polledPastEnd = FALSE

Keys == {"k1", "k2"}
Callers == 1..MaxCallers
NoRow == [id |-> 0, publicKey |-> "", isActive |-> 0]
NoCall == [proc |-> "none", publicKey |-> "", pc |-> "free", existing |-> 0,
           wallet |-> NoRow]

WalletsEmpty ==
    /\ wallets = {}
    /\ nextWalletId = 1
    /\ walletCalls = [c \in Callers |-> NoCall]
    /\ walletCallsMade = 0
    /\ lastWrite = [k \in Keys |-> "none"]
    /\ connectIds = [k \in Keys |-> {}]

LaterIdle ==
    /\ WalletsEmpty
    /\ PollingIdle
    /\ ExchangeIdle
    /\ op = "getTransactionStatus"
    /\ fromAmount = 1
    /\ ValidationIdle
    /\ entry = "estimateFees"
    /\ amountSol = Str("1.5")
    /\ walletFound = TRUE

Quiet ==
    /\ ClientIdle
    /\ MapEmpty
    /\ ProcedureIdle
    /\ LaterIdle
    /\ procName = "transfer"
    /\ procInput = "valid"

\* ------------------------------------------------------------ the governor

InitBase ==
    /\ queue = <<>>
    /\ processing = FALSE
    \* lastRequestTime = 0 and Date.now() is an epoch time: far more than
    \* one interval has passed
    /\ timeSinceLastRequest = minDelayBetweenRequests
    /\ loops = {}
    /\ outcome = [i \in Ids |-> "none"]
    /\ direct = 0
    /\ nextId = 1
    /\ clock = 0
    /\ dispatched = <<>>
    /\ started = <<>>
    /\ dispatchLog = [count |-> 0, since |-> minDelayBetweenRequests,
                      shortestGap |-> minDelayBetweenRequests]
    /\ settles = [i \in Ids |-> 0]
    /\ kind = [i \in Ids |-> "none"]
    /\ run = <<>>
    /\ triples = {}
    /\ result = [i \in Ids |-> "none"]
    /\ activations = 0

Init == InitBase /\ scenario \in Scenarios /\ Quiet

\* what the observer records when a pass of the loop body has taken an item
Stamp(log) ==
    [count |-> log.count + 1,
     since |-> 0,
     shortestGap |-> IF log.count = 0 THEN log.shortestGap
                     ELSE Min(log.shortestGap, log.since)]

HistTake(r) ==
    /\ dispatched' = Append(dispatched, r.loop.item.id)
    /\ dispatchLog' = IF r.loop.pc = "importing"
                      THEN Stamp(dispatchLog)
                      ELSE dispatchLog

\* the enqueue call for id completes a synchronous run of three calls of
\* types createTransaction, getStatus, createTransaction
IsThird(id, type) ==
    /\ Len(run) = 2
    /\ type = "createTransaction"
    /\ kind[id - 1] = "getStatus"
    /\ kind[id - 2] = "createTransaction"

\* ------------------------------------------------------------------ actions

\* enqueue(type, params, priority): build the item, insert it by priority,
\* call processQueue(), which runs up to its first await.  track says
\* whether the observer's history is kept (it is not in SpecLive, where
\* item slots are reused).
EnqueueAt(id, type, track) ==
    LET item == [id |-> id, type |-> type, priority |-> PriorityOf(type)]
        q1 == Insert(queue, item)
    IN  /\ outcome' = [outcome EXCEPT ![id] = "pending"]
        /\ UNCHANGED <<direct, scenario, beyond>>
        /\ IF CanStart(processing, q1)
           THEN LET r == Iterate(q1, timeSinceLastRequest) IN
                /\ processing' = TRUE
                /\ queue' = r.queue
                /\ timeSinceLastRequest' = r.since
                /\ loops' = loops \cup {r.loop}
                /\ IF track
                   THEN /\ HistTake(r)
                        /\ activations' = activations + 1
                   ELSE UNCHANGED <<dispatched, dispatchLog, activations>>
           ELSE /\ queue' = q1
                /\ UNCHANGED <<processing, timeSinceLastRequest, loops,
                               dispatched, dispatchLog, activations>>
        /\ IF track
           THEN /\ nextId' = nextId + 1
                /\ kind' = [kind EXCEPT ![id] = type]
                /\ run' = IF Len(run) = 2 THEN <<run[2], processing>>
                                          ELSE Append(run, processing)
                /\ triples' = IF IsThird(id, type)
                              THEN triples \cup {[a |-> id - 2, busy |-> run[1]]}
                              ELSE triples
           ELSE UNCHANGED <<nextId, kind, run, triples>>
        /\ settles' = [settles EXCEPT ![id] = 0]
        /\ result' = [result EXCEPT ![id] = "none"]
        /\ UNCHANGED <<clock, started>>

\* the submissions the environment makes
Budget ==
    CASE scenario = "burst" -> MaxBurst
      [] scenario = "api" -> MaxItems
      [] scenario = "faults" -> MaxItems - 1
      [] scenario = "router" -> MaxItems - 2

\* how long, in ms, a burst is watched
MaxBurstTime == MaxBurst * minDelayBetweenRequests

\* a burst is made in one synchronous run: nothing else runs until it is over
BurstOver == scenario = "burst" => nextId > MaxBurst

Enqueue(type) ==
    /\ nextId <= Budget
    /\ scenario = "burst" => type = "getStatus"
    /\ scenario = "router" => type \in {"createTransaction", "getStatus"}
    /\ EnqueueAt(nextId, type, TRUE)

\* the three exported entry points
queueCreateTransaction == Enqueue("createTransaction")
queueGetTransactionStatus == Enqueue("getStatus")
queueEstimateFees == Enqueue("estimateFees")

\* the setTimeout of the pacing wait fires: lastRequestTime = Date.now(),
\* then the loop awaits the dynamic import
TimerFireAt(l, track) ==
    /\ l \in loops
    /\ l.pc = "pacing"
    /\ l.timer = 0
    /\ loops' = (loops \ {l}) \cup {[l EXCEPT !.pc = "importing"]}
    /\ timeSinceLastRequest' = 0
    /\ UNCHANGED <<queue, processing, outcome, direct, scenario, beyond>>
    /\ IF track
       THEN /\ dispatchLog' = Stamp(dispatchLog)
            /\ run' = <<>>
       ELSE UNCHANGED <<dispatchLog, run>>
    /\ UNCHANGED <<nextId, clock, dispatched, started, settles, kind, triples,
                   result, activations>>

TimerFire == BurstOver /\ \E l \in loops : TimerFireAt(l, TRUE)

\* the import has resolved: the Exchange Client function is called and the
\* loop awaits it
ImportDoneAt(l, track) ==
    /\ l \in loops
    /\ l.pc = "importing"
    /\ loops' = (loops \ {l}) \cup {[l EXCEPT !.pc = "calling"]}
    /\ UNCHANGED <<queue, processing, timeSinceLastRequest, outcome, direct,
                   scenario, beyond>>
    /\ IF track
       THEN /\ started' = Append(started, l.item.id)
            /\ run' = <<>>
       ELSE UNCHANGED <<started, run>>
    /\ UNCHANGED <<nextId, clock, dispatched, dispatchLog, settles, kind,
                   triples, result, activations>>

ImportDone == BurstOver /\ \E l \in loops : ImportDoneAt(l, TRUE)

\* the Exchange Client call returns (res = "ok") or throws (res = "err"):
\* the item is settled, then the while loop goes on to its next await or,
\* with an empty line, ends the activation
CallReturnAt(l, res, track) ==
    /\ l \in loops
    /\ l.pc = "calling"
    /\ outcome' = [outcome EXCEPT ![l.item.id] =
                      IF @ = "pending" THEN Settlement(res) ELSE @]
    /\ UNCHANGED <<direct, scenario, beyond>>
    /\ IF Len(queue) > 0
       THEN LET r == Iterate(queue, timeSinceLastRequest) IN
            /\ queue' = r.queue
            /\ timeSinceLastRequest' = r.since
            /\ loops' = (loops \ {l}) \cup {r.loop}
            /\ UNCHANGED processing
            /\ IF track THEN HistTake(r)
                        ELSE UNCHANGED <<dispatched, dispatchLog>>
       ELSE /\ loops' = loops \ {l}
            /\ processing' = ProcessingAfterDrain
            /\ UNCHANGED <<queue, timeSinceLastRequest, dispatched,
                           dispatchLog>>
    /\ IF track
       THEN /\ settles' = [settles EXCEPT ![l.item.id] = @ + 1]
            /\ result' = [result EXCEPT ![l.item.id] = res]
            /\ run' = <<>>
       ELSE UNCHANGED <<settles, result, run>>
    /\ UNCHANGED <<nextId, clock, started, kind, triples, activations>>

CallReturn == BurstOver /\ \E l \in loops : CallReturnAt(l, "ok", TRUE)
CallThrow == scenario \in {"faults", "router"} /\ \E l \in loops : CallReturnAt(l, "err", TRUE)

\* time passes: d ms
TickBy(d, track) ==
    /\ timeSinceLastRequest' = Min(timeSinceLastRequest + d, minDelayBetweenRequests)
    /\ loops' = {[l EXCEPT !.timer = Max(0, @ - d)] : l \in loops}
    /\ UNCHANGED <<queue, processing, outcome, direct, scenario, beyond>>
    /\ IF track
       THEN /\ clock' = IF scenario = "burst" THEN clock + d ELSE clock
            /\ dispatchLog' = [dispatchLog EXCEPT
                                 !.since = Min(@ + d, minDelayBetweenRequests)]
       ELSE UNCHANGED <<clock, dispatchLog>>
    /\ UNCHANGED <<nextId, dispatched, started, settles, kind, run, triples,
                   result, activations>>

Tick == BurstOver /\ \E d \in TickSteps : clock + d <= MaxBurstTime /\ TickBy(d, TRUE)

\* ------------------------------------------------------- procedure layer

\* transaction.estimateFees: calls estimateTransactionFees itself, not
\* through the queue
estimateFees ==
    /\ scenario = "router"
    /\ direct < MaxDirect
    /\ direct' = direct + 1
    /\ UNCHANGED <<queue, processing, timeSinceLastRequest, loops, outcome,
                   scenario, beyond>>
    /\ UNCHANGED hist

\* that direct call returns or throws
estimateFeesReturn ==
    /\ direct > 0
    /\ direct' = direct - 1
    /\ UNCHANGED <<queue, processing, timeSinceLastRequest, loops, outcome,
                   scenario, beyond>>
    /\ UNCHANGED hist

Next ==
    \/ queueCreateTransaction
    \/ queueGetTransactionStatus
    \/ queueEstimateFees
    \/ TimerFire
    \/ ImportDone
    \/ CallReturn
    \/ CallThrow
    \/ Tick
    \/ estimateFees
    \/ estimateFeesReturn

Spec == Init /\ [][Next]_vars

\* ------------------------------------------------ the governor without end
\* The same handlers under submissions that never stop: an item's slot is
\* used again once its outcome is settled, at most MaxSlots items are pending
\* at once, and the observer's history is not kept.  Fairness: the event loop
\* runs every continuation that is ready (timer, import, call completion),
\* every exchange call returns or throws, and time passes.

Slots == 1..MaxSlots

InitLive == InitBase /\ scenario = "live" /\ Quiet

SubmitLive ==
    \E type \in Types : \E id \in Slots :
        /\ outcome[id] # "pending"
        /\ \A j \in Slots : j < id => outcome[j] = "pending"
        /\ EnqueueAt(id, type, FALSE)

TimerFireLive == \E l \in loops : TimerFireAt(l, FALSE)
ImportDoneLive == \E l \in loops : ImportDoneAt(l, FALSE)
CallReturnLive == \E l \in loops : CallReturnAt(l, "ok", FALSE)
CallThrowLive == \E l \in loops : CallReturnAt(l, "err", FALSE)
TickLive == \E d \in TickSteps : TickBy(d, FALSE)

NextLive ==
    \/ SubmitLive
    \/ TimerFireLive
    \/ ImportDoneLive
    \/ CallReturnLive
    \/ CallThrowLive
    \/ TickLive

SpecLive ==
    /\ InitLive
    /\ [][NextLive]_vars
    /\ WF_vars(TimerFireLive)
    /\ WF_vars(ImportDoneLive)
    /\ WF_vars(CallReturnLive \/ CallThrowLive)
    /\ WF_vars(TickLive)

\* ------------------------------------------ exchange client: createTransaction

maxRetries == 3

Addresses == {"", " ", "Dest", " Dest ", "bad!"}
Amounts == {Undefined, Num("0"), Num("-1"), Num("NaN"), Num("Infinity"),
            Num("1")}
Statuses == {400, 429, 500, 503}
Bodies ==
    {Null} \cup
    {Object(i, a, o) :
        i \in {Undefined, Num("42"), Str(""), Str("tx1")},
        a \in {Undefined, Str("bad!"), Str("Payin")},
        o \in {Undefined, Str("Dest"), Str("Other")}}

\* errorData.message || errorData.error || `API error: ...`
MessageOf(status) ==
    CASE status = 400 -> "upstream 400"
      [] status = 429 -> "upstream 429"
      [] status = 500 -> "upstream 500"
      [] status = 503 -> "upstream 503"

\* the checks made before the request is built; "" when they all pass
ParamError(key, p) ==
    IF key = ""
    THEN "ChangeNow API key is not configured"
    ELSE IF p.address = "" \/ Trim(p.address) = ""
    THEN "Recipient address is required"
    ELSE IF Falsy(p.fromAmount) /\ Falsy(p.toAmount)
    THEN "Either fromAmount or toAmount must be provided"
    ELSE IF ~Falsy(p.fromAmount) /\ (LeqZero(p.fromAmount) \/ IsNaN(p.fromAmount))
    THEN "Invalid fromAmount: must be a positive number"
    ELSE ""

PayoutAccepted(data, address) == TRUE

\* the payout address check: present and equal to the trimmed request
PayoutMatches(data, address) ==
    /\ ~Falsy(data.payoutAddress)
    /\ data.payoutAddress = Str(Trim(address))

\* the checks made on a parsed 2xx body; "" when they all pass
DataError(data, address) ==
    IF data.type # "object"
    THEN "Invalid response format from exchange API"
    ELSE IF Falsy(data.id) \/ ~IsString(data.id)
    THEN "Invalid response: missing or invalid transaction ID"
    ELSE IF Falsy(data.payinAddress) \/ ~IsString(data.payinAddress)
    THEN "Invalid response: missing or invalid deposit address"
    ELSE IF ~IsPublicKey(data.payinAddress.val)
    THEN "Invalid deposit address format received"
    ELSE IF ~PayoutMatches(data, address)
    THEN "Invalid response: payout address mismatch"
    ELSE ""

BackoffFlat(att) == 1000

\* the wait before the next attempt
Backoff(att) == 1000 * (att + 1)

IsAbortNever(error) == FALSE

IsAbort(error) == error.name = "AbortError"

\* the catch block of the retry loop, for an Error thrown inside the try
Catch(error, att) ==
    IF IsAbort(error)
    THEN [next |-> "throw", error |-> Error("Error", "Request timeout"),
          wait |-> 0]
    ELSE IF att < maxRetries - 1
    THEN [next |-> "backoff", error |-> error, wait |-> Backoff(att)]
    ELSE [next |-> "throw", error |-> error, wait |-> 0]

\* the branch taken on a response that is not ok
NotOk(status, att) ==
    IF status >= 400 /\ status < 500
    THEN Catch(Error("Error", MessageOf(status)), att)
    ELSE IF att < maxRetries - 1
    THEN [next |-> "backoff", error |-> Error("Error", MessageOf(status)),
          wait |-> Backoff(att)]
    ELSE Catch(Error("Error", MessageOf(status)), att)

\* the attempt ends as step says, having met class
Proceed(step, class) ==
    /\ seen' = Append(seen, class)
    /\ IF step.next = "backoff"
       THEN /\ cpc' = "backoff"
            /\ lastError' = step.error
            /\ sleeps' = Append(sleeps, step.wait)
            /\ UNCHANGED thrown
       ELSE /\ cpc' = "thrown"
            /\ thrown' = step.error
            /\ UNCHANGED <<lastError, sleeps>>
    /\ UNCHANGED <<params, apiKey, attempt, returned, requests>>
    /\ UNCHANGED <<rmap, procedure, later>>

governor == <<queue, processing, timeSinceLastRequest, loops, outcome, direct,
              scenario, nextId, clock, dispatched, started, dispatchLog,
              settles, kind, run, triples, result, activations>>

\* createTransaction(params) is called: the parameter checks, then the
\* first fetch
createTransaction ==
    /\ cpc = "idle"
    /\ IF ParamError(apiKey, params) # ""
       THEN /\ cpc' = "thrown"
            /\ thrown' = Error("Error", ParamError(apiKey, params))
            /\ UNCHANGED requests
       ELSE /\ cpc' = "fetching"
            /\ requests' = requests + 1
            /\ UNCHANGED thrown
    /\ UNCHANGED <<params, apiKey, attempt, lastError, returned, sleeps, seen>>
    /\ UNCHANGED <<governor, later, rmap, procedure>>

\* the 25 s timer aborts the fetch
FetchAborted ==
    /\ cpc = "fetching"
    /\ Proceed(Catch(Error("AbortError", "This operation was aborted"), attempt),
               "abort")
    /\ UNCHANGED <<governor, later>>

\* the fetch fails at network level
FetchFailed ==
    /\ cpc = "fetching"
    /\ Proceed(Catch(Error("TypeError", "fetch failed"), attempt), "network")
    /\ UNCHANGED <<governor, later>>

\* the exchange answers with a status that is not 2xx
ResponseNotOk ==
    /\ cpc = "fetching"
    /\ \E status \in Statuses :
          Proceed(NotOk(status, attempt), IF status < 500 THEN "4xx" ELSE "5xx")
    /\ UNCHANGED <<governor, later>>

\* the exchange answers 2xx with a body that does not parse
ResponseUnparsable ==
    /\ cpc = "fetching"
    /\ Proceed(Catch(Error("SyntaxError", "Unexpected token"), attempt),
               "unparsable")
    /\ UNCHANGED <<governor, later>>

\* the exchange answers 2xx with a parsed body
ResponseOk ==
    /\ cpc = "fetching"
    /\ \E data \in Bodies :
          IF DataError(data, params.address) # ""
          THEN Proceed(Catch(Error("Error", DataError(data, params.address)),
                             attempt), DataError(data, params.address))
          ELSE /\ cpc' = "returned"
               /\ returned' = data
               /\ seen' = Append(seen, "ok")
               /\ UNCHANGED <<params, apiKey, attempt, lastError, thrown,
                              requests, sleeps>>
               /\ UNCHANGED <<rmap, procedure, later>>
    /\ UNCHANGED <<governor, later>>

\* the backoff timer fires: continue, attempt++, and the next fetch
BackoffDone ==
    /\ cpc = "backoff"
    /\ attempt' = attempt + 1
    /\ IF attempt + 1 < maxRetries
       THEN /\ cpc' = "fetching"
            /\ requests' = requests + 1
            /\ UNCHANGED thrown
       ELSE /\ cpc' = "thrown"
            /\ thrown' = lastError
            /\ UNCHANGED requests
    /\ UNCHANGED <<params, apiKey, lastError, returned, sleeps, seen>>
    /\ UNCHANGED <<governor, later, rmap, procedure>>

InitClient ==
    /\ InitBase
    /\ scenario = "client"
    /\ params \in [address : Addresses, fromAmount : Amounts, toAmount : Amounts]
    /\ apiKey \in {"", "key"}
    /\ cpc = "idle"
    /\ attempt = 0
    /\ lastError = NoError
    /\ returned = NoData
    /\ thrown = NoError
    /\ requests = 0
    /\ sleeps = <<>>
    /\ seen = <<>>
    /\ MapEmpty
    /\ ProcedureIdle
    /\ procName = "transfer"
    /\ procInput = "valid"
    /\ LaterIdle

NextClient ==
    \/ createTransaction
    \/ FetchAborted
    \/ FetchFailed
    \/ ResponseNotOk
    \/ ResponseUnparsable
    \/ ResponseOk
    \/ BackoffDone

SpecClient == InitClient /\ [][NextClient]_vars

\* ------------------------------------------------------------ routing map

MapSetNothing(m, k, v) == m

\* Map.prototype.set and get; get gives undefined for a missing key
MapSet(m, k, v) == [m EXCEPT ![k] = v]
MapGet(m, k) == m[k]

\* v || null
OrNull(v) == IF v \in {"undefined", ""} THEN "null" ELSE v

\* db.storeTransactionRouting: fails when the database does not answer or
\* when the ref already has another ext (one row per txSignature)
TableAccepts(ref, ext) ==
    /\ dbReachable
    /\ routingTable[ref] \in {"undefined", ext}

\* db.getRoutingTransactionId: the row's ext, null when there is no row; it
\* throws when the database does not answer
DbGet(ref) ==
    IF dbReachable
    THEN [threw |-> FALSE, value |-> OrNull(routingTable[ref])]
    ELSE [threw |-> TRUE, value |-> ""]

\* try { return await ... } catch { return null }
CatchNull(r) == IF r.threw THEN [threw |-> FALSE, value |-> "null"] ELSE r

\* the observer notes a store that succeeded
NoteStore(impl, ref, ext) ==
    /\ latestStored' = [latestStored EXCEPT ![impl][ref] = ext]
    /\ firstStored' =
          IF firstStored[impl][ref] = "undefined"
          THEN [firstStored EXCEPT ![impl][ref] = ext]
          ELSE firstStored
    /\ lastLookup' = NoLookup

\* storeRoutingTransactionId(ref, ext), in-memory
storeRoutingTransactionIdInMemory ==
    \E ref \in Refs, ext \in Exts :
        /\ transactionIdToRoutingId' = MapSet(transactionIdToRoutingId, ref, ext)
        /\ NoteStore("memory", ref, ext)
        /\ UNCHANGED <<routingTable, dbReachable>>
        /\ UNCHANGED <<governor, later, client, procedure>>

\* getRoutingTransactionId(ref), in-memory
getRoutingTransactionIdInMemory ==
    \E ref \in Refs :
        /\ lastLookup' = [impl |-> "memory", ref |-> ref,
                          result |-> OrNull(MapGet(transactionIdToRoutingId, ref)),
                          threw |-> FALSE, reachable |-> TRUE]
        /\ UNCHANGED <<transactionIdToRoutingId, routingTable, dbReachable,
                       firstStored, latestStored>>
        /\ UNCHANGED <<governor, later, client, procedure>>

\* storeRoutingTransactionId(ref, ext), durable: the row is written, or the
\* error of db.storeTransactionRouting is logged and thrown again
storeRoutingTransactionId ==
    \E ref \in Refs, ext \in Exts :
        /\ IF TableAccepts(ref, ext)
           THEN /\ routingTable' = [routingTable EXCEPT ![ref] = ext]
                /\ NoteStore("durable", ref, ext)
           ELSE /\ lastLookup' = NoLookup
                /\ UNCHANGED <<routingTable, firstStored, latestStored>>
        /\ UNCHANGED <<transactionIdToRoutingId, dbReachable>>
        /\ UNCHANGED <<governor, later, client, procedure>>

\* getRoutingTransactionId(ref), durable: what db.getRoutingTransactionId
\* gives, and null when it throws
getRoutingTransactionId ==
    \E ref \in Refs :
        /\ lastLookup' = [impl |-> "durable", ref |-> ref,
                          result |-> CatchNull(DbGet(ref)).value,
                          threw |-> CatchNull(DbGet(ref)).threw,
                          reachable |-> dbReachable]
        /\ UNCHANGED <<transactionIdToRoutingId, routingTable, dbReachable,
                       firstStored, latestStored>>
        /\ UNCHANGED <<governor, later, client, procedure>>

\* the database stops answering, or answers again
DatabaseFlips ==
    /\ dbReachable' = ~dbReachable
    /\ UNCHANGED <<transactionIdToRoutingId, routingTable, firstStored,
                   latestStored, lastLookup>>
    /\ UNCHANGED <<governor, later, client, procedure>>

InitMap == InitBase /\ scenario = "map" /\ Quiet

NextMap ==
    \/ storeRoutingTransactionIdInMemory
    \/ getRoutingTransactionIdInMemory
    \/ storeRoutingTransactionId
    \/ getRoutingTransactionId
    \/ DatabaseFlips

SpecMap == InitMap /\ [][NextMap]_vars

\* -------------------------------------------------- procedures of routers.ts

InputsOf(name) ==
    CASE name = "transfer" -> {"missing", "badRecipient", "badAmount", "valid"}
      [] name = "estimateFees" -> {"badAmount", "valid"}
      [] name = "getTransaction" -> {"notFound", "confirmed", "pending"}
      [] name = "getRoutingStatus" -> {"valid"}

\* the message of the Error an exchange call failed with
FailureMessage(f) ==
    CASE f = "validation" -> "Destination address is required"
      [] f = "client" -> "upstream 400"
      [] f = "transient" -> "upstream 503"
      [] f = "timeout" -> "Request timeout"
      [] f = "integrity" -> "Invalid response: payout address mismatch"

\* the ref transfer issues and the id the exchange gave
userTxRef == "NR-1"
routingTxId == "ext1"

OnPersistenceErrorRethrow == "throw"

\* transfer's catch (dbError): warn and go on to return the success
OnPersistenceError == "warn"

\* the procedure's first run, up to its first await on the exchange call
CallProcedure ==
    /\ ppc = "idle"
    /\ CASE procName = "transfer" ->
              IF procInput = "valid"
              THEN ppc' = "calling" /\ UNCHANGED response
              ELSE /\ ppc' = "done"
                   /\ response' = TRPCError("BAD_REQUEST",
                          CASE procInput = "missing" -> "Missing transfer payload"
                            [] procInput = "badRecipient" -> "Invalid recipient public key"
                            [] procInput = "badAmount" -> "Invalid amount")
         [] procName = "estimateFees" ->
              IF procInput = "valid"
              THEN ppc' = "calling" /\ UNCHANGED response
              ELSE /\ ppc' = "done"
                   /\ response' = TRPCError("INTERNAL_SERVER_ERROR", "Invalid amount")
         [] procName = "getRoutingStatus" ->
              ppc' = "calling" /\ UNCHANGED response
         [] procName = "getTransaction" ->
              IF procInput = "notFound"
              THEN /\ ppc' = "done"
                   /\ response' = TRPCError("NOT_FOUND", "Transaction not found")
              ELSE IF procInput = "pending" /\ CatchNull(DbGet(userTxRef)).value # "null"
              THEN ppc' = "calling" /\ UNCHANGED response
              ELSE /\ ppc' = "done"
                   /\ response' = Result("tx, routingStatus null")
    /\ UNCHANGED <<procName, procInput, callEnd, itemOutcome, warnings,
                   txRecords, dbPersisted, calls>>
    /\ UNCHANGED <<governor, later, client, rmap>>

\* the exchange call ends (end = "ok" or a failure); through the queue the
\* item is resolved or rejected by processQueue, and the procedure runs on
\* from its await
CallEnds ==
    /\ ppc = "calling"
    /\ \E end \in {"ok"} \cup Failures :
          LET settled == IF procName = "estimateFees"
                         THEN (IF end = "ok" THEN "resolved" ELSE "rejected")
                         ELSE Settlement(IF end = "ok" THEN "ok" ELSE "err")
          IN
          /\ callEnd' = end
          /\ itemOutcome' = settled
          /\ CASE procName = "transfer" ->
                    IF settled = "resolved"
                    THEN ppc' = "storing" /\ UNCHANGED <<response, warnings>>
                    ELSE /\ ppc' = "done"
                         /\ response' = TRPCError("INTERNAL_SERVER_ERROR",
                                                  FailureMessage(end))
                         /\ UNCHANGED warnings
               [] procName \in {"estimateFees", "getRoutingStatus"} ->
                    /\ ppc' = "done"
                    /\ response' = IF settled = "resolved"
                                   THEN Result("from the exchange")
                                   ELSE TRPCError("INTERNAL_SERVER_ERROR",
                                                  FailureMessage(end))
                    /\ UNCHANGED warnings
               [] procName = "getTransaction" ->
                    /\ ppc' = "done"
                    /\ IF settled = "resolved"
                       THEN /\ response' = Result("tx, routingStatus")
                            /\ UNCHANGED warnings
                       ELSE /\ response' = Result("tx, routingStatus null")
                            /\ warnings' = warnings \cup
                                  {"Could not get routing status"}
    /\ UNCHANGED <<procName, procInput, txRecords, dbPersisted, calls>>
    /\ UNCHANGED <<governor, later, client, rmap>>

\* what transfer does when a persistence step threw
PersistenceFailed ==
    IF OnPersistenceError = "warn"
    THEN /\ warnings' = warnings \cup {"transaction created but not persisted"}
         /\ response' = Result("success, txSignature, payinAddress, routingTransactionId")
    ELSE /\ response' = TRPCError("INTERNAL_SERVER_ERROR", "Database not available")
         /\ UNCHANGED warnings

\* transfer: await storeRoutingTransactionId(userTxRef, routingTx.id)
TransferStores ==
    /\ ppc = "storing"
    /\ IF TableAccepts(userTxRef, routingTxId)
       THEN /\ routingTable' = [routingTable EXCEPT ![userTxRef] = routingTxId]
            /\ NoteStore("durable", userTxRef, routingTxId)
            /\ ppc' = "recording"
            /\ UNCHANGED <<response, warnings>>
       ELSE /\ PersistenceFailed
            /\ ppc' = "done"
            /\ UNCHANGED <<routingTable, firstStored, latestStored, lastLookup>>
    /\ UNCHANGED <<procName, procInput, callEnd, itemOutcome, txRecords,
                   dbPersisted, calls>>
    /\ UNCHANGED <<transactionIdToRoutingId, dbReachable>>
    /\ UNCHANGED <<governor, later, client>>

\* transfer: the placeholder wallet and await db.createTransaction(...)
TransferRecords ==
    /\ ppc = "recording"
    /\ ppc' = "done"
    /\ IF dbReachable
       THEN /\ txRecords' = txRecords + 1
            /\ dbPersisted' = TRUE
            /\ response' = Result("success, txSignature, payinAddress, routingTransactionId")
            /\ UNCHANGED warnings
       ELSE /\ PersistenceFailed
            /\ UNCHANGED <<txRecords, dbPersisted>>
    /\ UNCHANGED <<procName, procInput, callEnd, itemOutcome, calls>>
    /\ UNCHANGED <<governor, later, client, rmap>>

\* the caller has its response and makes another call
NextCall ==
    /\ ppc = "done"
    /\ calls < MaxCalls
    /\ calls' = calls + 1
    /\ procName' \in Procedures
    /\ procInput' \in InputsOf(procName')
    /\ ppc' = "idle"
    /\ callEnd' = "none"
    /\ itemOutcome' = "none"
    /\ response' = NoResponse
    /\ warnings' = {}
    /\ dbPersisted' = FALSE
    /\ UNCHANGED txRecords
    /\ UNCHANGED <<governor, later, client, rmap>>

InitProc ==
    /\ InitBase
    /\ scenario = "procedure"
    /\ ClientIdle
    /\ ProcedureIdle
    /\ procName \in Procedures
    /\ procInput \in InputsOf(procName)
    /\ MapEmpty
    /\ LaterIdle

NextProc ==
    \/ CallProcedure
    \/ CallEnds
    \/ TransferStores
    \/ TransferRecords
    \/ NextCall
    \/ DatabaseFlips

SpecProc == InitProc /\ [][NextProc]_vars

\* ---------------------------------------------- the checks of the amount

otherThanValidation == <<governor, client, rmap, procedure, exchange, polling, walletStore>>

\* const amount = parseFloat(input.amountSol);
\* if (isNaN(amount) || amount <= 0) throw "Invalid amount"
InvalidAmount(amount) == IsNaN(amount) \/ LeqZero(amount)

\* estimateFees: the check, then the estimate call
estimateFeesChecks ==
    /\ apc = "idle" /\ entry = "estimateFees"
    /\ apc' = "done"
    /\ IF InvalidAmount(parseFloat(amountSol.val))
       THEN failure' = "Invalid amount" /\ UNCHANGED exchangeCalls
       ELSE exchangeCalls' = exchangeCalls + 1 /\ UNCHANGED failure
    /\ UNCHANGED <<entry, amountSol, walletFound, workItems, inserted,
                   requestsMade>>
    /\ UNCHANGED otherThanValidation

\* transfer: the payload, the amount, then queueCreateTransaction
transferChecks ==
    /\ apc = "idle" /\ entry = "transfer"
    /\ IF Falsy(amountSol)
       THEN /\ failure' = "Missing transfer payload (recipientPublicKey, amountSol)"
            /\ apc' = "done"
            /\ UNCHANGED workItems
       ELSE IF InvalidAmount(parseFloat(amountSol.val))
       THEN /\ failure' = "Invalid amount"
            /\ apc' = "done"
            /\ UNCHANGED workItems
       ELSE /\ workItems' = workItems + 1
            /\ apc' = "queued"
            /\ UNCHANGED failure
    /\ UNCHANGED <<entry, amountSol, walletFound, exchangeCalls, inserted,
                   requestsMade>>
    /\ UNCHANGED otherThanValidation

\* shield and unshield: what the checks of the wallet and of the amount
\* throw, "none" when both pass
WalletOrAmountError ==
    IF ~walletFound
    THEN "No wallet connected. Please connect your wallet first."
    ELSE IF InvalidAmount(parseFloat(amountSol.val))
    THEN "Invalid amount"
    ELSE "none"

\* shield: the checks, then solana.shieldAssets and db.createTransaction
shieldChecks ==
    /\ apc = "idle" /\ entry = "shield"
    /\ apc' = "done"
    /\ failure' = WalletOrAmountError
    /\ inserted' = IF WalletOrAmountError = "none" THEN inserted + 1 ELSE inserted
    /\ UNCHANGED <<entry, amountSol, walletFound, workItems, exchangeCalls,
                   requestsMade>>
    /\ UNCHANGED otherThanValidation

\* unshield: the checks, then solana.unshieldAssets and db.createTransaction
unshieldChecks ==
    /\ apc = "idle" /\ entry = "unshield"
    /\ apc' = "done"
    /\ failure' = WalletOrAmountError
    /\ inserted' = IF WalletOrAmountError = "none" THEN inserted + 1 ELSE inserted
    /\ UNCHANGED <<entry, amountSol, walletFound, workItems, exchangeCalls,
                   requestsMade>>
    /\ UNCHANGED otherThanValidation

\* queueEstimateFees(fromCurrency, toCurrency, fromAmount): enqueue
queueEstimateFeesWith ==
    /\ apc = "idle" /\ entry = "queueEstimateFees"
    /\ workItems' = workItems + 1
    /\ apc' = "queued"
    /\ UNCHANGED <<entry, amountSol, walletFound, exchangeCalls, inserted,
                   failure, requestsMade>>
    /\ UNCHANGED otherThanValidation

\* processQueue makes the item's call: createTransaction for transfer,
\* estimateTransactionFees (which checks fromAmount before any request) for
\* queueEstimateFees
ItemRuns ==
    /\ apc = "queued"
    /\ apc' = "done"
    /\ IF entry = "queueEstimateFees" /\ (LeqZero(amountSol) \/ IsNaN(amountSol))
       THEN failure' = "Invalid amount" /\ UNCHANGED exchangeCalls
       ELSE exchangeCalls' = exchangeCalls + 1 /\ UNCHANGED failure
    /\ UNCHANGED <<entry, amountSol, walletFound, workItems, inserted,
                   requestsMade>>
    /\ UNCHANGED otherThanValidation

NextRequest ==
    /\ apc = "done"
    /\ requestsMade < MaxRequests
    /\ requestsMade' = requestsMade + 1
    /\ entry' \in Entries
    /\ amountSol' \in AmountsOf(entry')
    /\ walletFound' \in BOOLEAN
    /\ apc' = "idle"
    /\ workItems' = 0
    /\ exchangeCalls' = 0
    /\ inserted' = 0
    /\ failure' = "none"
    /\ UNCHANGED otherThanValidation

InitValidation ==
    /\ InitBase
    /\ scenario = "validation"
    /\ ClientIdle
    /\ MapEmpty
    /\ ProcedureIdle
    /\ procName = "transfer"
    /\ procInput = "valid"
    /\ ValidationIdle
    /\ ExchangeIdle
    /\ PollingIdle
    /\ WalletsEmpty
    /\ op = "getTransactionStatus"
    /\ fromAmount = 1
    /\ entry \in Entries
    /\ amountSol \in AmountsOf(entry)
    /\ walletFound \in BOOLEAN

NextValidation ==
    \/ estimateFeesChecks
    \/ transferChecks
    \/ shieldChecks
    \/ unshieldChecks
    \/ queueEstimateFeesWith
    \/ ItemRuns
    \/ NextRequest

SpecValidation == InitValidation /\ [][NextValidation]_vars

\* ------------------- getTransactionStatus and estimateTransactionFees

otherThanExchange == <<governor, client, rmap, procedure, validation, polling, walletStore>>

FromAmounts == (-1)..MaxAmount
\* rateInfo.toAmount of a rate response: absent, or a number
ToAmounts == {[present |-> FALSE, val |-> 0]} \cup
             {[present |-> TRUE, val |-> v] : v \in (-1)..(MaxAmount + 1)}
HttpStatuses == {200, 400, 500}

FloorOff(x) == x

\* Math.max(0, x)
Floor(x) == Max(0, x)

\* rateInfo.toAmount || fromAmount
OrFromAmount(t, from) == IF ~t.present \/ t.val = 0 THEN from ELSE t.val

\* what estimateTransactionFees returns for fromAmount and the rate response
FeeEstimate(from, t) ==
    LET sendAmount == from
        receiveAmount == OrFromAmount(t, from)
        feeAmount == sendAmount - receiveAmount
        feePercentage == IF sendAmount > 0
                         THEN Ratio(feeAmount * 100, sendAmount)
                         ELSE Ratio(0, 1)
    IN  [sendAmount |-> sendAmount,
         receiveAmount |-> receiveAmount,
         feeAmount |-> Floor(feeAmount),
         feePercentage |-> Ratio(Floor(feePercentage.num), feePercentage.den),
         isValid |-> receiveAmount > 0 /\ sendAmount > 0]

\* estimateTransactionFees wraps what getExchangeRate threw
Wrapped(message) ==
    IF op = "estimateTransactionFees"
    THEN "Failed to estimate fees: " \o message
    ELSE message

StatusOnFailureRetry == "retry"

\* getTransactionStatus, catch (error): throw error
StatusOnFailure == "throw"

\* a call that failed after its request: thrown to the caller (a retry
\* would make the request again)
Fails(message) ==
    IF op = "getTransactionStatus" /\ StatusOnFailure = "retry"
    THEN /\ opc' = "fetching"
         /\ opRequests' = opRequests + 1
         /\ UNCHANGED opError
    ELSE /\ opc' = "thrown"
         /\ opError' = Wrapped(message)
         /\ UNCHANGED opRequests

\* getTransactionStatus up to await fetch(url, {method, headers})
getTransactionStatus ==
    /\ op = "getTransactionStatus" /\ opc = "idle"
    /\ IF apiKey = ""
       THEN /\ opc' = "thrown"
            /\ opError' = "ChangeNow API key is not configured"
            /\ UNCHANGED opRequests
       ELSE /\ opc' = "fetching"
            /\ opRequests' = opRequests + 1
            /\ UNCHANGED opError
    /\ UNCHANGED <<op, timerArmed, httpStatus, fromAmount, estimate, opsMade>>
    /\ UNCHANGED otherThanExchange

\* estimateTransactionFees up to the await fetch(url, {..., signal}) of its
\* getExchangeRate, whose timer aborts the fetch after 15 s (the timer
\* estimateTransactionFees sets itself aborts a controller nothing uses)
estimateTransactionFees ==
    /\ op = "estimateTransactionFees" /\ opc = "idle"
    /\ IF apiKey = ""
       THEN /\ opc' = "thrown"
            /\ opError' = "API key is not configured"
            /\ UNCHANGED <<opRequests, timerArmed>>
       ELSE IF fromAmount <= 0
       THEN /\ opc' = "thrown"
            /\ opError' = "Invalid amount"
            /\ UNCHANGED <<opRequests, timerArmed>>
       ELSE /\ opc' = "fetching"
            /\ opRequests' = opRequests + 1
            /\ timerArmed' = TRUE
            /\ UNCHANGED opError
    /\ UNCHANGED <<op, httpStatus, fromAmount, estimate, opsMade>>
    /\ UNCHANGED otherThanExchange

\* the response's head arrives: fetch resolves, clearTimeout(timeoutId)
ResponseArrives ==
    /\ opc = "fetching"
    /\ \E status \in HttpStatuses : httpStatus' = status
    /\ opc' = "reading"
    /\ timerArmed' = FALSE
    /\ UNCHANGED <<op, opRequests, opError, fromAmount, estimate, opsMade>>
    /\ UNCHANGED otherThanExchange

\* fetch rejects: the network failed
FetchRejects ==
    /\ opc = "fetching"
    /\ Fails("fetch failed")
    /\ timerArmed' = FALSE
    /\ UNCHANGED <<op, httpStatus, fromAmount, estimate, opsMade>>
    /\ UNCHANGED otherThanExchange

\* the abort timer fires: fetch rejects with an AbortError, which
\* getExchangeRate turns into Error("Request timeout. Please try again.")
AbortFires ==
    /\ opc = "fetching" /\ timerArmed
    /\ Fails("Request timeout. Please try again.")
    /\ timerArmed' = FALSE
    /\ UNCHANGED <<op, httpStatus, fromAmount, estimate, opsMade>>
    /\ UNCHANGED otherThanExchange

\* response.json() settles: the error message of a response that is not
\* ok, the data of one that is, or a SyntaxError
BodyArrives ==
    /\ opc = "reading"
    /\ IF httpStatus # 200
       THEN /\ Fails("API error")
            /\ UNCHANGED estimate
       ELSE \/ /\ Fails("Unexpected token in JSON")
               /\ UNCHANGED estimate
            \/ /\ opc' = "returned"
               /\ IF op = "estimateTransactionFees"
                  THEN \E t \in ToAmounts : estimate' = FeeEstimate(fromAmount, t)
                  ELSE UNCHANGED estimate
               /\ UNCHANGED <<opRequests, opError>>
    /\ UNCHANGED <<op, timerArmed, httpStatus, fromAmount, opsMade>>
    /\ UNCHANGED otherThanExchange

\* the call has ended; its caller (processQueue, settling the item and
\* taking the next one) makes another call
NextOp ==
    /\ opc \in {"returned", "thrown"}
    /\ opsMade < MaxOps
    /\ opsMade' = opsMade + 1
    /\ op' \in Ops
    /\ fromAmount' \in FromAmounts
    /\ opc' = "idle"
    /\ timerArmed' = FALSE
    /\ httpStatus' = 0
    /\ opRequests' = 0
    /\ opError' = ""
    /\ estimate' = NoEstimate
    /\ UNCHANGED otherThanExchange

InitExchange ==
    /\ InitBase
    /\ scenario = "exchange"
    /\ params = [address |-> "Dest", fromAmount |-> Num(1), toAmount |-> Undefined]
    /\ apiKey \in {"", "key"}
    /\ cpc = "idle"
    /\ attempt = 0
    /\ lastError = NoError
    /\ returned = NoData
    /\ thrown = NoError
    /\ requests = 0
    /\ sleeps = <<>>
    /\ seen = <<>>
    /\ MapEmpty
    /\ ProcedureIdle
    /\ procName = "transfer"
    /\ procInput = "valid"
    /\ ValidationIdle
    /\ entry = "estimateFees"
    /\ amountSol = Str("1.5")
    /\ walletFound = TRUE
    /\ ExchangeIdle
    /\ PollingIdle
    /\ WalletsEmpty
    /\ op \in Ops
    /\ fromAmount \in FromAmounts

NextExchange ==
    \/ getTransactionStatus
    \/ estimateTransactionFees
    \/ ResponseArrives
    \/ FetchRejects
    \/ AbortFires
    \/ BodyArrives
    \/ NextOp

SpecExchange == InitExchange /\ [][NextExchange]_vars

\* the program takes its own steps and its timers fire; nothing obliges the
\* exchange to answer
SpecExchangeLive ==
    /\ SpecExchange
    /\ WF_vars(getTransactionStatus)
    /\ WF_vars(estimateTransactionFees)
    /\ WF_vars(AbortFires)
    /\ WF_vars(NextOp)

\* ----------------------------------- the status query of the Home page

otherThanPolling == <<governor, client, rmap, procedure, validation, exchange, walletStore>>

pollInterval == 5000

ExchangeStatuses == {"waiting", "confirming", "exchanging", "sending",
                     "finished", "failed", "refunded", "expired"}
TerminalStatuses == {"finished", "failed", "refunded", "expired"}

\* the transitions the exchange makes: forward along the chain, or to one
\* of the other ends
Succ(st) ==
    CASE st = "waiting" -> {"confirming", "failed", "refunded", "expired"}
      [] st = "confirming" -> {"exchanging", "failed", "refunded"}
      [] st = "exchanging" -> {"sending", "failed", "refunded"}
      [] st = "sending" -> {"finished", "failed", "refunded"}
      [] OTHER -> {}

\* what refetchInterval returns
Every(ms) == [poll |-> TRUE, ms |-> ms]
Off == [poll |-> FALSE, ms |-> 0]

refetchIntervalNoExpired(d) ==
    IF d \in {"undefined", "no status"} THEN Every(pollInterval)
    ELSE IF d \in {"finished", "failed", "refunded"} THEN Off
    ELSE Every(pollInterval)

\* refetchInterval: (query) => ... of the getRoutingStatus query
refetchInterval(d) ==
    IF d \in {"undefined", "no status"} THEN Every(pollInterval)
    ELSE IF d \in {"finished", "failed", "refunded", "expired"} THEN Off
    ELSE Every(pollInterval)

\* enabled: !!transactionResult?.routingTransactionId
Enabled == transactionResult \notin {"null", ""}

\* transferMutation onSuccess: setTransactionResult(...); the query, now
\* enabled under a new key, makes its first request
transferSucceeds ==
    /\ transfersMade < MaxTransfers
    /\ transfersMade' = transfersMade + 1
    /\ \E id \in {"ext1", "ext2", ""} :
          /\ id # transactionResult
          /\ transactionResult' = id
          /\ fetching' = (id # "")
          /\ lastCause' = IF id # "" THEN "mount" ELSE lastCause
    /\ queryData' = "undefined"
    /\ exchangeStatus' = "waiting"
    /\ elapsed' = 0
    /\ UNCHANGED <<lastGap, polledPastEnd>>
    /\ UNCHANGED otherThanPolling

\* transferMutation onError: setTransactionResult(null)
transferFails ==
    /\ transfersMade < MaxTransfers
    /\ transfersMade' = transfersMade + 1
    /\ transactionResult' = "null"
    /\ queryData' = "undefined"
    /\ fetching' = FALSE
    /\ elapsed' = 0
    /\ UNCHANGED <<exchangeStatus, lastCause, lastGap, polledPastEnd>>
    /\ UNCHANGED otherThanPolling

\* the exchange moves the transaction on
ExchangeMoves ==
    /\ Enabled
    /\ exchangeStatus' \in Succ(exchangeStatus)
    /\ UNCHANGED <<transactionResult, queryData, fetching, elapsed, transfersMade,
                   lastCause, lastGap, polledPastEnd>>
    /\ UNCHANGED otherThanPolling

\* the request in flight succeeds: data is set and the interval is taken
\* anew from refetchInterval
StatusArrives ==
    /\ fetching
    /\ fetching' = FALSE
    /\ queryData' \in {exchangeStatus, "no status"}
    /\ elapsed' = IF refetchInterval(queryData') = refetchInterval(queryData)
                  THEN elapsed ELSE 0
    /\ UNCHANGED <<transactionResult, exchangeStatus, transfersMade,
                   lastCause, lastGap, polledPastEnd>>
    /\ UNCHANGED otherThanPolling

\* the request in flight fails: data stays as it was
StatusFails ==
    /\ fetching
    /\ fetching' = FALSE
    /\ UNCHANGED <<transactionResult, queryData, exchangeStatus, elapsed,
                   transfersMade, lastCause, lastGap, polledPastEnd>>
    /\ UNCHANGED otherThanPolling

\* time passes, up to the moment the interval timer is due
PageTick ==
    /\ Enabled
    /\ refetchInterval(queryData).poll
    /\ elapsed < refetchInterval(queryData).ms
    /\ elapsed' = Min(refetchInterval(queryData).ms, elapsed + TickMs)
    /\ UNCHANGED <<transactionResult, queryData, exchangeStatus, fetching,
                   transfersMade, lastCause, lastGap, polledPastEnd>>
    /\ UNCHANGED otherThanPolling

\* the interval timer is due: a request is made unless one is in flight
IntervalFires ==
    /\ Enabled
    /\ refetchInterval(queryData).poll
    /\ elapsed >= refetchInterval(queryData).ms
    /\ elapsed' = 0
    /\ lastGap' = elapsed
    /\ polledPastEnd' = (polledPastEnd \/ queryData \in TerminalStatuses)
    /\ IF fetching
       THEN UNCHANGED <<fetching, lastCause>>
       ELSE fetching' = TRUE /\ lastCause' = "interval"
    /\ UNCHANGED <<transactionResult, queryData, exchangeStatus, transfersMade>>
    /\ UNCHANGED otherThanPolling

\* refetchOnWindowFocus: true: the window gets the focus
WindowFocus ==
    /\ Enabled
    /\ ~fetching
    /\ fetching' = TRUE
    /\ lastCause' = "focus"
    /\ UNCHANGED <<transactionResult, queryData, exchangeStatus, elapsed,
                   transfersMade, lastGap, polledPastEnd>>
    /\ UNCHANGED otherThanPolling

InitPoll ==
    /\ InitBase
    /\ scenario = "poll"
    /\ Quiet

NextPoll ==
    \/ transferSucceeds
    \/ transferFails
    \/ ExchangeMoves
    \/ StatusArrives
    \/ StatusFails
    \/ PageTick
    \/ IntervalFires
    \/ WindowFocus

SpecPoll == InitPoll /\ [][NextPoll]_vars

\* ------------------------------- the wallets table, connect, disconnect

otherThanWallets == <<governor, client, rmap, procedure, validation, exchange,
                      polling>>

\* db.select().from(wallets).where(eq(wallets.publicKey, k))
Select(k) == {r \in wallets : r.publicKey = k}

\* .limit(1), as the array the query gives
Limit1(rows) == IF rows = {} THEN <<>> ELSE <<CHOOSE r \in rows : TRUE>>

\* db.update(wallets).set({isActive: a}).where(eq(wallets.publicKey, k))
Update(k, a) ==
    {IF r.publicKey = k THEN [r EXCEPT !.isActive = a] ELSE r : r \in wallets}

UniqueNot(k) == TRUE

\* publicKey ... .notNull().unique(): an insert of k is accepted
Unique(k) == Select(k) = {}

\* wallet.list({publicKey: k})
List(k) == Limit1(Select(k))

SetCall(c, call) == walletCalls' = [walletCalls EXCEPT ![c] = call]

\* a caller calls wallet.connect or wallet.disconnect with a valid key
walletCall ==
    /\ walletCallsMade < MaxWalletCalls
    /\ walletCallsMade' = walletCallsMade + 1
    /\ \E c \in Callers, proc \in {"connect", "disconnect"}, k \in Keys :
          /\ walletCalls[c].pc = "free"
          /\ SetCall(c, [NoCall EXCEPT !.proc = proc, !.publicKey = k,
                                        !.pc = "start"])
    /\ UNCHANGED <<wallets, nextWalletId, lastWrite, connectIds>>
    /\ UNCHANGED otherThanWallets

\* upsertWallet: const existing = await db.select()...limit(1)
upsertSelects ==
    /\ \E c \in Callers :
          LET call == walletCalls[c]
              existing == Limit1(Select(call.publicKey)) IN
          /\ call.proc = "connect" /\ call.pc = "start"
          /\ SetCall(c, [call EXCEPT !.pc = "selected",
                  !.existing = IF Len(existing) > 0 THEN existing[1].id ELSE 0])
    /\ UNCHANGED <<wallets, nextWalletId, walletCallsMade, lastWrite, connectIds>>
    /\ UNCHANGED otherThanWallets

\* upsertWallet: the update of the existing row, or the insert
upsertWrites ==
    /\ \E c \in Callers :
          LET call == walletCalls[c]
              k == call.publicKey IN
          /\ call.proc = "connect" /\ call.pc = "selected"
          /\ IF call.existing # 0
             THEN /\ wallets' = Update(k, 1)
                  /\ lastWrite' = [lastWrite EXCEPT ![k] = "connect"]
                  /\ SetCall(c, [call EXCEPT !.pc = "written"])
                  /\ UNCHANGED nextWalletId
             ELSE IF Unique(k)
             THEN /\ wallets' = wallets \cup
                        {[id |-> nextWalletId, publicKey |-> k, isActive |-> 1]}
                  /\ nextWalletId' = nextWalletId + 1
                  /\ lastWrite' = [lastWrite EXCEPT ![k] = "connect"]
                  /\ SetCall(c, [call EXCEPT !.pc = "written"])
             ELSE /\ SetCall(c, [call EXCEPT !.pc = "failed"])
                  /\ UNCHANGED <<wallets, nextWalletId, lastWrite>>
    /\ UNCHANGED <<walletCallsMade, connectIds>>
    /\ UNCHANGED otherThanWallets

\* connect: const wallet = await db.getWalletByPublicKey(...); return it
connectReturns ==
    /\ \E c \in Callers :
          LET call == walletCalls[c]
              k == call.publicKey
              found == Limit1(Select(k)) IN
          /\ call.proc = "connect" /\ call.pc = "written"
          /\ IF Len(found) = 0
             THEN /\ SetCall(c, [call EXCEPT !.pc = "failed"])
                  /\ UNCHANGED connectIds
             ELSE /\ SetCall(c, [call EXCEPT !.pc = "returned",
                                             !.wallet = found[1]])
                  /\ connectIds' = [connectIds EXCEPT
                                       ![k] = @ \cup {found[1].id}]
    /\ UNCHANGED <<wallets, nextWalletId, walletCallsMade, lastWrite>>
    /\ UNCHANGED otherThanWallets

\* disconnect: const wallet = await db.getWalletByPublicKey(...)
disconnectFinds ==
    /\ \E c \in Callers :
          LET call == walletCalls[c]
              found == Limit1(Select(call.publicKey)) IN
          /\ call.proc = "disconnect" /\ call.pc = "start"
          /\ SetCall(c, IF Len(found) = 0
                        THEN [call EXCEPT !.pc = "failed"]
                        ELSE [call EXCEPT !.pc = "found", !.wallet = found[1]])
    /\ UNCHANGED <<wallets, nextWalletId, walletCallsMade, lastWrite, connectIds>>
    /\ UNCHANGED otherThanWallets

\* disconnect: update(wallets).set({isActive: 0, ...}) and return
disconnectWrites ==
    /\ \E c \in Callers :
          LET call == walletCalls[c]
              k == call.publicKey IN
          /\ call.proc = "disconnect" /\ call.pc = "found"
          /\ wallets' = Update(k, 0)
          /\ lastWrite' = [lastWrite EXCEPT ![k] = "disconnect"]
          /\ SetCall(c, [call EXCEPT !.pc = "returned"])
    /\ UNCHANGED <<nextWalletId, walletCallsMade, connectIds>>
    /\ UNCHANGED otherThanWallets

\* the caller has its answer
walletCallEnds ==
    /\ \E c \in Callers :
          /\ walletCalls[c].pc \in {"returned", "failed"}
          /\ SetCall(c, NoCall)
    /\ UNCHANGED <<wallets, nextWalletId, walletCallsMade, lastWrite, connectIds>>
    /\ UNCHANGED otherThanWallets

InitWallet ==
    /\ InitBase
    /\ scenario = "wallet"
    /\ Quiet

NextWallet ==
    \/ walletCall
    \/ upsertSelects
    \/ upsertWrites
    \/ connectReturns
    \/ disconnectFinds
    \/ disconnectWrites
    \/ walletCallEnds

SpecWallet == InitWallet /\ [][NextWallet]_vars

\* ------------------------------------------------------ derived quantities

Submitted == 1..(nextId - 1)
In(seq, x) == \E i \in 1..Len(seq) : seq[i] = x
Pos(seq, x) == CHOOSE i \in 1..Len(seq) : seq[i] = x
NoRepeat(seq) == \A i, j \in 1..Len(seq) : seq[i] = seq[j] => i = j
IsPrefix(s, t) == Len(s) <= Len(t) /\ \A i \in 1..Len(s) : s[i] = t[i]
Before(seq, x, y) == In(seq, y) => (In(seq, x) /\ Pos(seq, x) < Pos(seq, y))
Prio(i) == PriorityOf(kind[i])
Calling == {l \in loops : l.pc = "calling"}
Held == {l.item.id : l \in loops}
Queued == {queue[k].id : k \in 1..Len(queue)}
Settled(i) == outcome[i] \in {"resolved", "rejected"}
Ceil(a, b) == (a + b - 1) \div b

\* this step shifts x off the line / starts x's exchange call
ShiftedNow(x) ==
    /\ Len(dispatched') = Len(dispatched) + 1
    /\ dispatched'[Len(dispatched')] = x
StartedNow(x) ==
    /\ Len(started') = Len(started) + 1
    /\ started'[Len(started')] = x

\* C1: at most one activation of processQueue exists and at most one
\* Exchange Client call made by the loop is in flight; while the loop holds an
\* item, every item dispatched before it has been settled, so no call begins
\* before the previous item's outcome is resolved or rejected.
C1_OneCallInFlight ==
    /\ Cardinality(loops) <= 1
    /\ Cardinality(Calling) <= 1
    /\ \A l \in loops : \A k \in 1..Len(dispatched) :
          dispatched[k] # l.item.id => Settled(dispatched[k])
    /\ \A k \in 1..Len(started) :
          k < Len(started) => Settled(started[k])

\* a call is in flight while two more submissions wait in the line
C1_Witness ==
    /\ Cardinality(Calling) = 1
    /\ Len(queue) >= 2

\* C2: two consecutive assignments of lastRequestTime (dispatches) are never
\* less than minDelayBetweenRequests apart; after a burst submitted at time 0
\* the number of dispatches, and of calls started, by time clock is at most
\* ceil(clock / minDelay) + 1; and a burst of 30 getStatus items is not all
\* dispatched before 1160 ms.
C2_Pacing ==
    /\ dispatchLog.shortestGap >= minDelayBetweenRequests
    /\ scenario = "burst" =>
          /\ dispatchLog.count <= Ceil(clock, minDelayBetweenRequests) + 1
          /\ Len(started) <= Ceil(clock, minDelayBetweenRequests) + 1
          /\ dispatchLog.count >= 30 => clock >= 1160

\* the burst of 30 has been dispatched whole
C2_Witness ==
    /\ scenario = "burst"
    /\ dispatchLog.count = 30
    /\ Len(started) = 30

\* C3 as claimed: a higher-priority item submitted while an earlier
\* lower-priority item's call has not started yet has its call started first;
\* that is, no call starts while a later-submitted item of higher priority
\* is waiting.
C3_Claimed ==
    [][\A x \in Ids :
          StartedNow(x) =>
              \A k \in 1..Len(queue) :
                  ~(queue[k].id > x /\ queue[k].priority > Prio(x))]_vars

\* C3 amended: a higher-priority item submitted while an earlier
\* lower-priority item is still in the waiting line is shifted off the line,
\* and has its call started, before that item: whenever an item is shifted
\* nothing of a higher priority is left in the line, and calls start in the
\* order of the shifts.
C3_PriorityInLine ==
    /\ [](IsPrefix(started, dispatched))
    /\ [][\A x \in Ids :
            ShiftedNow(x) =>
                \A k \in 1..Len(queue') :
                    queue'[k].priority <= PriorityOf(kind'[x])]_vars

\* a getStatus and an estimateFees item overtook an earlier createTransaction
\* item in the line, the getStatus item first
C3_Witness ==
    \E x, y, z \in Submitted :
        /\ x < y /\ y < z
        /\ kind[x] = "createTransaction"
        /\ kind[y] = "estimateFees"
        /\ kind[z] = "getStatus"
        /\ In(started, x) /\ In(started, y) /\ In(started, z)
        /\ Pos(started, z) < Pos(started, y)
        /\ Pos(started, y) < Pos(started, x)

\* C4 as claimed: A(1), B(10), C(1) submitted back-to-back are dispatched in
\* the order B, A, C whatever the state of the queue at A's submission.
C4_Claimed ==
    \A t \in triples :
        /\ Before(dispatched, t.a + 1, t.a)
        /\ Before(dispatched, t.a, t.a + 2)

\* C4 amended: when the loop is already running as A is submitted the order is
\* B, A, C; when it is not, A is shifted off the line by its own enqueue call
\* and the order is A, B, C.
C4_OrderByLoopState ==
    \A t \in triples :
        IF t.busy
        THEN /\ Before(dispatched, t.a + 1, t.a)
             /\ Before(dispatched, t.a, t.a + 2)
             /\ Before(started, t.a + 1, t.a)
             /\ Before(started, t.a, t.a + 2)
        ELSE /\ In(dispatched, t.a)
             /\ Before(dispatched, t.a, t.a + 1)
             /\ Before(dispatched, t.a + 1, t.a + 2)
             /\ Before(started, t.a, t.a + 1)
             /\ Before(started, t.a + 1, t.a + 2)

\* a triple submitted to a running loop had its calls started B, A, C
C4_Witness ==
    \E t \in triples :
        /\ t.busy
        /\ In(started, t.a + 2)
        /\ Pos(started, t.a + 1) < Pos(started, t.a)
        /\ Pos(started, t.a) < Pos(started, t.a + 2)

\* C5: of two items of equal priority the one submitted first is shifted off
\* the line first and has its call started first.
C5_FifoInTier ==
    \A x, y \in Submitted :
        (x < y /\ Prio(x) = Prio(y)) =>
            /\ Before(dispatched, x, y)
            /\ Before(started, x, y)

\* two equal-priority items were started in arrival order although items of
\* a higher and of a lower priority were submitted between them
C5_Witness ==
    scenario = "api" /\ \E x, y \in Submitted : \E u, v \in Submitted :
        /\ x < u /\ u < y /\ x < v /\ v < y
        /\ Prio(x) = Prio(y)
        /\ Prio(u) > Prio(x)
        /\ Prio(v) < Prio(x)
        /\ In(started, y)

\* C6: an item is resolved only if its own call returned and rejected only if
\* its own call threw; whatever the calls did, the loop stays alive while
\* anything is left in the line and no pending item is lost.
C6_FailureIsolation ==
    /\ \A i \in Submitted :
          /\ outcome[i] = "resolved" => result[i] = "ok"
          /\ outcome[i] = "rejected" => result[i] = "err"
          /\ outcome[i] = "pending" => i \in Queued \cup Held
    /\ Len(queue) > 0 => (processing /\ loops # {})

\* X was rejected; Y submitted before X was resolved, and so was Z,
\* submitted after X and dispatched after X's failure
C6_Witness ==
    scenario = "faults" /\ \E x, y, z \in Submitted :
        /\ y < x /\ x < z
        /\ outcome[x] = "rejected"
        /\ outcome[y] = "resolved"
        /\ outcome[z] = "resolved"
        /\ Pos(started, x) < Pos(started, z)

\* C7: resolve or reject is called at most once per item, only after the
\* item's own call has finished; no item is shifted off the line or called
\* twice; when everything has drained, each item has been settled exactly once.
C7_SettledOnce ==
    /\ \A i \in Submitted :
          /\ settles[i] <= 1
          /\ settles[i] = 1 <=> Settled(i)
          /\ settles[i] = 1 => (In(started, i) /\ result[i] # "none")
    /\ NoRepeat(dispatched)
    /\ NoRepeat(started)
    /\ (Len(queue) = 0 /\ loops = {}) => \A i \in Submitted : settles[i] = 1

\* all the submissions of a behaviour have been settled, some rejected
C7_Witness ==
    /\ scenario = "faults"
    /\ nextId > Budget
    /\ \A i \in Submitted : settles[i] = 1
    /\ \E i, j \in Submitted : outcome[i] = "resolved" /\ outcome[j] = "rejected"

\* C9: no loop runs before the first submission; processing is true exactly
\* while an activation exists; with processing false nothing waits, nothing
\* is pending and no timer is left; an enqueue call made while processing is
\* false starts an activation, which shifts the new item off the line.
C9_LazyStartSelfStop ==
    /\ [](/\ nextId = 1 => (~processing /\ activations = 0)
          /\ nextId > 1 => activations >= 1
          /\ processing <=> loops # {}
          /\ ~processing =>
                /\ Len(queue) = 0
                /\ \A i \in Submitted : Settled(i))
    /\ [][(nextId' = nextId + 1 /\ ~processing) =>
             /\ processing'
             /\ activations' = activations + 1
             /\ ShiftedNow(nextId)
             /\ nextId \in {l.item.id : l \in loops'}]_vars

\* the loop has stopped, was started again by a later submission, dispatched
\* it and stopped again
C9_Witness ==
    /\ activations >= 2
    /\ ~processing
    /\ loops = {}
    /\ \A i \in Submitted : Settled(i)

\* C10 as claimed: counting the calls the procedures make, at most one
\* exchange-API call is in flight at any instant.
C10_Claimed == Cardinality(Calling) + direct <= 1

\* the priority of a waiting item, and whether something of a higher
\* priority waits with it
PosInLine(i) == (CHOOSE k \in 1..Len(queue) : queue[k].id = i)
HigherWaiting(i) ==
    \E k \in 1..Len(queue) : queue[k].priority > queue[PosInLine(i)].priority

\* C8 as claimed: under any pattern of further submissions every submitted
\* item is eventually settled.
C8_Claimed ==
    \A i \in Slots : (outcome[i] = "pending") ~> (outcome[i] # "pending")

\* C8 amended: an item shifted off the line is eventually settled; a waiting
\* item eventually leaves the line unless items of a higher priority are
\* waiting with it again and again; so a getStatus item is always settled.
C8_NoStarvationInTopTier ==
    \A i \in Slots :
        /\ (i \in Held) ~> (outcome[i] # "pending")
        /\ (i \in Queued) ~> (i \notin Queued \/ HigherWaiting(i))
        /\ (i \in Queued /\ queue[PosInLine(i)].type = "getStatus")
              ~> (outcome[i] # "pending")

\* every slot has carried an item to its settlement and the loop has stopped
C8_Witness ==
    /\ scenario = "live"
    /\ \A i \in Slots : Settled(i)
    /\ ~processing

\* ------------------------------------------ createTransaction: properties

Attempts == 1..Len(seen)
Transient == {"5xx", "network"}
\* attempt k was the call's last one and the call threw, with no request
\* and no wait after it
FailedAt(k) ==
    /\ k = Len(seen)
    /\ cpc = "thrown"
    /\ requests = k
    /\ Len(sleeps) = k - 1
    /\ returned = NoData

\* C11 as claimed: a 2xx response whose payout address is not the requested
\* one, or that has no transaction id, makes createTransaction fail at once:
\* no further request, no wait, nothing returned.
C11_Claimed ==
    \A k \in Attempts :
        seen[k] \in {"Invalid response: payout address mismatch",
                     "Invalid response: missing or invalid transaction ID"}
            => FailedAt(k)

\* C12: createTransaction returns only a body with a non-empty string id, a
\* payinAddress that is a well-formed address and a payoutAddress equal to
\* the trimmed requested address; nothing is returned unless the call
\* returned, and a returning attempt is the last one.
C12_AddressIntegrity ==
    /\ cpc = "returned" =>
          /\ returned.type = "object"
          /\ IsString(returned.id) /\ returned.id.val # ""
          /\ IsString(returned.payinAddress)
          /\ IsPublicKey(returned.payinAddress.val)
          /\ IsString(returned.payoutAddress)
          /\ returned.payoutAddress.val = Trim(params.address)
          /\ seen[Len(seen)] = "ok"
    /\ cpc # "returned" => returned = NoData
    /\ \A k \in Attempts : seen[k] = "ok" => (k = Len(seen) /\ cpc = "returned")

\* a call with an address given with blanks around it returned after an
\* earlier attempt had met a response naming another payout address
C12_Witness ==
    /\ cpc = "returned"
    /\ params.address = " Dest "
    /\ \E k \in Attempts : seen[k] = "Invalid response: payout address mismatch"

\* C13 as claimed: a 4xx answer makes createTransaction fail at once with the
\* server's message: no further request and no wait, so a 4xx answer to the
\* first request leaves exactly one request made.
C13_Claimed ==
    \A k \in Attempts :
        seen[k] = "4xx" =>
            /\ FailedAt(k)
            /\ thrown.message \in {MessageOf(st) : st \in {400, 429}}

\* C14: never more than maxRetries requests; the waits made are 1000 ms
\* before the second request and 2000 ms before the third; a 5xx answer or
\* a network failure on the first or second attempt is followed by a wait
\* and a further request, not by a failure; the first attempt that succeeds
\* ends the call with its data; a 5xx answer or network failure on the
\* third attempt is thrown to the caller.
C14_RetryTransient ==
    /\ requests <= 3
    /\ Len(seen) <= requests
    /\ IsPrefix(sleeps, <<1000, 2000>>)
    /\ Len(sleeps) = (IF cpc = "backoff" THEN requests
                      ELSE IF requests = 0 THEN 0 ELSE requests - 1)
    /\ \A k \in Attempts :
          /\ (seen[k] \in Transient /\ k < 3) =>
                /\ Len(sleeps) >= k
                /\ k = Len(seen) => cpc \in {"backoff", "fetching"}
                /\ cpc \in {"returned", "thrown"} => requests > k
          /\ (seen[k] \in Transient /\ k = 3) =>
                /\ cpc = "thrown"
                /\ thrown.message \in {MessageOf(500), MessageOf(503),
                                       "fetch failed"}
          /\ seen[k] = "ok" => (k = Len(seen) /\ cpc = "returned")

\* two 5xx answers, then a 2xx one: the call returned on the third attempt
\* after waiting 1000 and 2000 ms
C14_Witness ==
    /\ seen = <<"5xx", "5xx", "ok">>
    /\ sleeps = <<1000, 2000>>
    /\ requests = 3
    /\ cpc = "returned"

\* C15: an aborted fetch, on whichever attempt, ends the call at once with
\* the timed-out failure and no further request; no other failure carries
\* that message.
C15_TimeoutNotRetried ==
    /\ \A k \in Attempts :
          seen[k] = "abort" =>
              /\ FailedAt(k)
              /\ thrown.message = "Request timeout"
    /\ thrown.message = "Request timeout" => seen[Len(seen)] = "abort"

\* the first fetch was aborted: one request made, the call has failed
C15_Witness ==
    /\ seen = <<"abort">>
    /\ requests = 1
    /\ cpc = "thrown"
    /\ thrown.message = "Request timeout"

\* input as the claim wants it: a well-formed address, and exactly one of
\* the two amounts given, that one positive and finite
WellFormed(p) ==
    /\ Trim(p.address) # ""
    /\ IsPublicKey(Trim(p.address))
    /\ \/ p.fromAmount = Num("1") /\ p.toAmount = Undefined
       \/ p.fromAmount = Undefined /\ p.toAmount = Num("1")

\* C16 as claimed: with malformed input createTransaction makes no request
\* and fails.
C16_Claimed ==
    ~WellFormed(params) =>
        /\ requests = 0
        /\ cpc \in {"idle", "thrown"}

\* ------------------------------------------------- routing map: properties

\* what a lookup of ref gives in this state, the database answering
Lookup(impl, ref) ==
    IF impl = "memory"
    THEN OrNull(MapGet(transactionIdToRoutingId, ref))
    ELSE OrNull(routingTable[ref])

C21_Claimed ==
    (lastLookup.impl # "none" /\ lastLookup.result = "null") =>
        Lookup(lastLookup.impl, lastLookup.ref) = "null"

\* the amount of the request parses to 0, a negative number or NaN
AmountRejected ==
    IF entry = "queueEstimateFees" THEN LeqZero(amountSol) \/ IsNaN(amountSol)
    ELSE InvalidAmount(parseFloat(amountSol.val))

\* C22 as claimed: a request whose amount parses to 0, a negative number or
\* NaN never enqueues a WorkItem, never makes an exchange call and never
\* inserts a record, and it ends with "Invalid amount" once its amount is
\* looked at; so does a non-positive amount given to queueEstimateFees.
C22_Claimed ==
    AmountRejected =>
        /\ workItems = 0
        /\ exchangeCalls = 0
        /\ inserted = 0
        /\ apc = "done" => failure # "none"
        /\ (apc = "done" /\ walletFound /\ ~Falsy(amountSol)) =>
              failure = "Invalid amount"

\* C23 as claimed: every request made to the exchange is guarded by an abort
\* timeout, so a call that waits for the exchange's response stops waiting
\* even if the exchange never responds, and the dispatch loop awaiting the
\* call moves on to the next item.
C23_Claimed == (opc = "fetching") ~> (opc # "fetching")

\* C24: a call of getTransactionStatus makes one request and no more,
\* whatever the response (success, 4xx, 5xx, network failure, unparsable
\* body); a failure is thrown to the caller at once. (Without an API key it
\* throws before any request.)
C24_SingleAttempt ==
    op = "getTransactionStatus" =>
        /\ opRequests <= 1
        /\ opc \in {"fetching", "reading"} => opRequests = 1
        /\ (opc \in {"returned", "thrown"} /\ apiKey # "") => opRequests = 1
        /\ opc = "thrown" => opError # ""

\* a status call met a 5xx response and threw after its one request
C24_Witness ==
    /\ op = "getTransactionStatus"
    /\ opc = "thrown"
    /\ httpStatus = 500
    /\ opRequests = 1

C25_PollingStops ==
    /\ ~polledPastEnd
    /\ lastGap \in {-1, pollInterval}
    /\ Enabled =>
          /\ queryData \in TerminalStatuses => ~refetchInterval(queryData).poll
          /\ queryData \notin TerminalStatuses =>
                /\ refetchInterval(queryData) = Every(pollInterval)
                /\ elapsed <= pollInterval

\* the page polled by its interval while the transaction was under way and
\* holds a terminal status now
C25_Witness ==
    /\ Enabled
    /\ queryData = "refunded"
    /\ lastCause = "interval"
    /\ lastGap = pollInterval
    /\ ~fetching

\* C27: the table never holds two rows for one publicKey; every connect of
\* a key returns a wallet of that key with the same id; and while connect
\* was the last to write a key's row (however many connects and disconnects
\* came before), list gives exactly one wallet, of that key, with
\* isActive = 1.
C27_IdempotentUpsert ==
    /\ \A k \in Keys :
          /\ Cardinality(Select(k)) <= 1
          /\ Cardinality(connectIds[k]) <= 1
          /\ lastWrite[k] = "connect" =>
                /\ Len(List(k)) = 1
                /\ List(k)[1].publicKey = k
                /\ List(k)[1].isActive = 1
                /\ Select(k) = {List(k)[1]}
    /\ \A c \in Callers :
          LET call == walletCalls[c] IN
          (call.proc = "connect" /\ call.pc = "returned") =>
              /\ call.wallet.publicKey = call.publicKey
              /\ connectIds[call.publicKey] = {call.wallet.id}

\* a connected key was disconnected and then connected again: the
\* disconnect has returned, the connect that wrote after it has returned the
\* wallet of the first connect, active again
C27_Witness ==
    \E c, d \in Callers :
        /\ walletCalls[c].proc = "connect"
        /\ walletCalls[c].pc = "returned"
        /\ walletCalls[c].existing # 0
        /\ walletCalls[c].wallet.isActive = 1
        /\ walletCalls[d].proc = "disconnect"
        /\ walletCalls[d].pc = "returned"
        /\ walletCalls[d].publicKey = walletCalls[c].publicKey
        /\ lastWrite[walletCalls[c].publicKey] = "connect"
        /\ Len(List(walletCalls[c].publicKey)) = 1

\* the items shifted off the line and not yet settled
InHand == {i \in Held : ~Settled(i)}

\* C28: whenever control is back at the event loop, a non-empty queue means
\* processing is true; processing is true exactly when one item has been
\* shifted off the line and is not yet settled; and getQueueStatus never
\* shows queueLength > 0 with processing false.
C28_NoLostWakeup ==
    /\ Len(queue) > 0 => processing
    /\ processing <=> Cardinality(InHand) = 1
    /\ Cardinality(InHand) <= 1
    /\ LET status == getQueueStatus(queue, processing) IN
       ~(status.queueLength > 0 /\ ~status.processing)

\* the loop, started a second time after it had drained the line, holds one
\* item while two more wait
C28_Witness ==
    /\ scenario = "api"
    /\ activations >= 2
    /\ processing
    /\ Len(queue) >= 2
    /\ Cardinality(InHand) = 1

\* C29: the waiting line is kept in order of non-increasing priority and,
\* within one priority, of submission; the item shifted off the line is the
\* earliest submitted of those of the highest priority waiting.
C29_LineOrdered ==
    /\ [](\A a, b \in 1..Len(queue) :
            a < b =>
               \/ queue[a].priority > queue[b].priority
               \/ /\ queue[a].priority = queue[b].priority
                  /\ queue[a].id < queue[b].id)
    /\ [][\A x \in Ids :
            ShiftedNow(x) =>
                /\ Len(queue) > 0 => queue[1].id = x
                /\ \A k \in 1..Len(queue') :
                      \/ queue'[k].priority < PriorityOf(kind'[x])
                      \/ /\ queue'[k].priority = PriorityOf(kind'[x])
                         /\ queue'[k].id > x]_vars

\* the line holds items of three priorities, two of them of one priority,
\* and an item submitted last stands at its head
C29_Witness ==
    /\ scenario = "api"
    /\ Len(queue) >= 3
    /\ queue[1].priority > queue[Len(queue)].priority
    /\ \E a, b \in 1..Len(queue) :
          a < b /\ queue[a].priority = queue[b].priority
    /\ \A k \in 2..Len(queue) : queue[1].id > queue[k].id

\* C30: a transfer whose createTransaction call failed (validation, client
\* error, retries exhausted, timeout, integrity) stores no mapping and
\* inserts no record; a mapping or a record is written only by a transfer
\* whose call succeeded, the mapping being (its ref, the id the call
\* returned), and at most one of each per call.
C30_FailedCreateStoresNothing ==
    /\ []((procName = "transfer" /\ callEnd \in Failures) =>
            /\ ppc = "done"
            /\ response.kind = "error"
            /\ ~dbPersisted)
    /\ [](\A ref \in Refs : routingTable[ref] \in {"undefined", routingTxId})
    /\ [][(routingTable' # routingTable =>
               /\ procName = "transfer" /\ callEnd = "ok"
               /\ itemOutcome = "resolved"
               /\ ppc = "storing" /\ ppc' # "storing"
               /\ routingTable' =
                     [routingTable EXCEPT ![userTxRef] = routingTxId]
               /\ txRecords' = txRecords)
           /\
           (txRecords' # txRecords =>
               /\ procName = "transfer" /\ callEnd = "ok"
               /\ itemOutcome = "resolved"
               /\ ppc = "recording" /\ ppc' = "done"
               /\ ~dbPersisted /\ dbPersisted'
               /\ txRecords' = txRecords + 1
               /\ routingTable' = routingTable)]_vars

\* a transfer stored its mapping and its record; the next transfer's call
\* timed out and the table and the records are as the first left them
C30_Witness ==
    /\ calls = 2
    /\ procName = "transfer"
    /\ callEnd = "timeout"
    /\ ppc = "done"
    /\ response.kind = "error"
    /\ txRecords = 1
    /\ routingTable[userTxRef] = routingTxId

\* C20 as claimed: once a store for a ref has succeeded, a lookup of the ref
\* gives that ext in every later state, whatever stores follow.
C20_Claimed ==
    \A impl \in Impls, ref \in Refs :
        firstStored[impl][ref] # "undefined" =>
            Lookup(impl, ref) = firstStored[impl][ref]

\* --------------------------------------------------- procedures: properties

Success == Result("success, txSignature, payinAddress, routingTransactionId")

C18_Claimed ==
    callEnd \in Failures =>
        /\ itemOutcome = "rejected"
        /\ response.kind = "error"

\* C18 amended: whenever a procedure's exchange call failed, the item is
\* rejected; transfer, estimateFees and getRoutingStatus answer with an
\* error carrying the failure's message; getTransaction logs a warning and
\* returns the transaction record with routingStatus null.
C18_FailuresSurface ==
    callEnd \in Failures =>
        /\ itemOutcome = "rejected"
        /\ ppc = "done"
        /\ IF procName = "getTransaction"
           THEN /\ response = Result("tx, routingStatus null")
                /\ "Could not get routing status" \in warnings
           ELSE /\ response.kind = "error"
                /\ response.message = FailureMessage(callEnd)

\* a transfer whose createTransaction call failed the integrity check was
\* answered with that failure
C18_Witness ==
    /\ procName = "transfer"
    /\ callEnd = "integrity"
    /\ itemOutcome = "rejected"
    /\ response.kind = "error"

====
